---- MODULE Spec2Model ----
(***************************************************************************)
(* lamp: a language-model invocation layer and its evaluation harness.     *)
(*                                                                         *)
(*   lamp(config, promptFn)   src/source/lamp.ts      bound model invoker  *)
(*   writeHeader / writeln    output.ts               debug trace sink     *)
(*   describe, Evaluator.run  src/source/evaluate.ts  trial loop, stats    *)
(*                                                                         *)
(* An optional JavaScript value is a sequence of length at most one:       *)
(* None is undefined (or an absent property), Some(v) is the value v.      *)
(* A JavaScript object is a function from its property names.              *)
(***************************************************************************)
EXTENDS Integers, Sequences, FiniteSets, TLC

VARIABLES
    invokers,  \* the bound invokers lamp() returned: their closed-over config
    pending,   \* invocations suspended at `await generateText/generateObject`
    settled,   \* how invocations settled, until their awaiter consumes it
    calls,     \* the number of direct calls made so far
    config,    \* Evaluator.config
    run,       \* the activation of Evaluator.run: locals and position
    earlier,   \* how the earlier runs of the Evaluator ended, oldest first
    sample,    \* an array a caller of describe holds
    described  \* what describe(sample) gave that caller, once called

vars == <<invokers, pending, settled, calls, config, run, earlier, sample,
          described>>

None == <<>>
Some(v) == <<v>>

(***************************************************************************)
(* Bounds of the model.                                                    *)
(***************************************************************************)
\* Direct calls a caller makes on the bound invokers.
MaxCalls == 2
\* The largest iteration count an Evaluator is configured with.
MaxIterations == 2
\* The longest array describe is called with on its own.
MaxLen == 3
\* The runs made of one Evaluator, one after the other.
MaxRuns == 2

(***************************************************************************)
(* Values.                                                                 *)
(***************************************************************************)
ModelHandle == "anthropic:haiku"
FruitSchema == "z.object({fruits: z.array(z.string())})"

\* The `...settings` rest of lamp's first parameter: every property of the
\* configuration but model and schema.
SettingsBags ==
    { [maxTokens |-> 256, temperature |-> 1],
      [maxTokens |-> 256, debug |-> TRUE],
      [debug |-> FALSE] }

\* The configurations lamp() is called with.
Configs ==
    { [model |-> ModelHandle, schema |-> s, settings |-> b] :
        s \in {None, Some(FruitSchema)}, b \in SettingsBags }

\* Argument tuples the bound invokers are called with.
Inputs == {<<"a">>, <<"b">>, <<"c">>}

\* The prompt function: LMPPromptFunction returns a bare string or a
\* {system, prompt} pair.
promptFn(args) ==
    CASE args = <<"a">> -> [kind |-> "string", prompt |-> "How many legs: a"]
      [] args = <<"b">> -> [kind |-> "object", system |-> "S",
                            prompt |-> "How many legs: b"]
      [] OTHER          -> [kind |-> "object", system |-> "",
                            prompt |-> "How many legs: c"]

UsageA == [promptTokens |-> 3, completionTokens |-> 1, totalTokens |-> 4]
UsageB == [promptTokens |-> 5, completionTokens |-> 2, totalTokens |-> 7]

\* What the generation capability resolves with (more than lamp reads).
TextResponses ==
    { [text |-> "4", usage |-> UsageA, finishReason |-> "stop"],
      [text |-> "", usage |-> UsageB, finishReason |-> "length"] }

ObjectResponses ==
    { [object |-> [fruits |-> <<"fig">>], usage |-> UsageA,
       finishReason |-> "stop"],
      [object |-> [fruits |-> <<>>], usage |-> UsageB,
       finishReason |-> "stop"] }

\* How the capability rejects: a capability fault, or the abort signal.
CapabilityFaults == {"CapabilityFault", "AbortError"}

\* process.stdout.columns: undefined without a terminal, else its width.
Columns == {None, Some(0), Some(80)}

(***************************************************************************)
(* output.ts                                                               *)
(***************************************************************************)
\* A value in a template literal: undefined reads "undefined".
TemplateString(v) == IF v = None THEN "undefined" ELSE v[1]

RECURSIVE Repeat(_, _)
Repeat(s, n) == IF n = 0 THEN "" ELSE s \o Repeat(s, n - 1)

\* writeln(input): the text written to stdout.
writeln(input) == TemplateString(input) \o "\n"

\* writeHeader(header): Some(the text written), or None when
\* String.prototype.repeat throws RangeError (a negative count). Without a
\* terminal the width is NaN, which repeat reads as 0.
writeHeader(header, columns) ==
    IF columns = None
    THEN Some("\\x1b[32m\n--" \o header \o "\n")
    ELSE LET width == columns[1] - Len(header) - 2
         IN  IF width < 0
             THEN None
             ELSE Some("\\x1b[32m\n--" \o header \o Repeat("-", width) \o "\n")

(***************************************************************************)
(* lamp.ts                                                                 *)
(***************************************************************************)
\* A string in a condition: the empty string is falsy.
Truthy(s) == s # None /\ s[1] # ""

\* JSON.stringify of undefined (None) and of the objects of ObjectResponses.
RECURSIVE JoinQuoted(_)
JoinQuoted(xs) ==
    IF xs = <<>> THEN ""
    ELSE "\"" \o Head(xs) \o "\"" \o
         (IF Len(xs) = 1 THEN "" ELSE "," \o JoinQuoted(Tail(xs)))

JSONStringify(object) ==
    IF object = None THEN None
    ELSE Some("{\"fruits\":[" \o JoinQuoted(object[1].fruits) \o "]}")

\* logMessages: [ok, written]; ok is FALSE when a write throws, and written
\* is what reached stdout before that.
logMessages(system, user, output, columns) ==
    LET h1 == writeHeader("Prompt:", columns)
        sys == IF Truthy(system)
               THEN <<writeln(Some("\\x1b[33msystem:\\x1b[0m " \o system[1])),
                      writeln(Some(""))>>
               ELSE <<>>
        usr == <<writeln(Some("\\x1b[33muser:\\x1b[0m " \o user))>>
        h2 == writeHeader("Output:", columns)
    IN  IF h1 = None THEN [ok |-> FALSE, written |-> <<>>]
        ELSE IF h2 = None
             THEN [ok |-> FALSE, written |-> h1 \o sys \o usr]
             ELSE [ok |-> TRUE,
                   written |-> h1 \o sys \o usr \o h2 \o <<writeln(output)>>]

\* Object spread {...base, ...over}: later properties win.
Spread(base, over) == over @@ base

\* Mutation of UseObject: the schema is ignored.
UseObjectNever(schema) == FALSE

\* `if (schema)`: which capability the call is routed to.
UseObject(schema) == schema # None

\* Mutation of getTextRequest: the system message is not forwarded.
getTextRequestNoSystem(model, system, prompt, settings) ==
    [op |-> "generateText",
     arg |-> Spread(("model" :> model) @@ ("system" :> None)
                        @@ ("prompt" :> prompt),
                    settings)]

\* getText / getObject up to their await: the capability's argument.
getTextRequest(model, system, prompt, settings) ==
    [op |-> "generateText",
     arg |-> Spread(("model" :> model) @@ ("system" :> system)
                        @@ ("prompt" :> prompt),
                    settings)]

getObjectRequest(model, system, prompt, schema, settings) ==
    [op |-> "generateObject",
     arg |-> Spread(("model" :> model) @@ ("system" :> system)
                        @@ ("prompt" :> prompt) @@ ("schema" :> schema),
                    settings)]

\* getText / getObject after their await: the properties they return.
getTextResult(response) == [text |-> response.text, usage |-> response.usage]
getObjectResult(response) ==
    [object |-> response.object, usage |-> response.usage]

\* The bound invoker up to its await (lamp.ts 203-215).
lampCall(by, inv, args) ==
    LET cfg == invokers[inv]
        prompts == promptFn(args)
        system == IF prompts.kind = "string" THEN None
                  ELSE Some(prompts.system)
        prompt == prompts.prompt
    IN  [by |-> by, inv |-> inv, args |-> args,
         system |-> system, prompt |-> prompt,
         request |->
            IF UseObject(cfg.schema)
            THEN getObjectRequest(cfg.model, system, prompt, cfg.schema[1],
                                  cfg.settings)
            ELSE getTextRequest(cfg.model, system, prompt, cfg.settings)]

\* `if (settings.debug)`.
DebugSet(settings) == "debug" \in DOMAIN settings /\ settings["debug"] = TRUE

\* What the capability may settle a request with: Some(response) or a fault.
CapabilityOutcomes(request) ==
    { [ok |-> TRUE, response |-> Some(r), fault |-> None] :
        r \in IF request.op = "generateObject" THEN ObjectResponses
              ELSE TextResponses }
    \cup { [ok |-> FALSE, response |-> None, fault |-> Some(f)] :
             f \in CapabilityFaults }

\* The bound invoker from its await on (lamp.ts 212-228): how its promise
\* settles, and what it wrote to the trace sink.
lampSettle(call, outcome, columns) ==
    LET cfg == invokers[call.inv]
        base == [inv |-> call.inv, by |-> call.by, args |-> call.args,
                 request |-> call.request, response |-> outcome.response]
    IN  IF ~outcome.ok
        THEN base @@ [ok |-> FALSE, value |-> None, fault |-> outcome.fault,
                      written |-> <<>>]
        ELSE
        LET result == IF call.request.op = "generateObject"
                      THEN getObjectResult(outcome.response[1])
                      ELSE getTextResult(outcome.response[1])
            text == IF "text" \in DOMAIN result THEN Some(result.text)
                    ELSE None
            object == IF "object" \in DOMAIN result THEN Some(result.object)
                      ELSE None
            output == IF Truthy(text) THEN text ELSE JSONStringify(object)
            log == IF DebugSet(cfg.settings)
                   THEN logMessages(call.system, call.prompt, output, columns)
                   ELSE [ok |-> TRUE, written |-> <<>>]
        IN  IF log.ok
            THEN base @@ [ok |-> TRUE, value |-> Some(result), fault |-> None,
                          written |-> log.written]
            ELSE base @@ [ok |-> FALSE, value |-> None,
                          fault |-> Some("RangeError"),
                          written |-> log.written]

(***************************************************************************)
(* evaluate.ts: describe                                                   *)
(***************************************************************************)
RECURSIVE GCD(_, _)
GCD(a, b) == IF b = 0 THEN a ELSE GCD(b, a % b)

Abs(n) == IF n < 0 THEN -n ELSE n

\* The number num/den (den > 0), in lowest terms.
Frac(num, den) ==
    LET g == GCD(Abs(num), den)
    IN  IF g = 0 THEN [num |-> 0, den |-> 1]
        ELSE [num |-> num \div g, den |-> den \div g]

RECURSIVE Insert(_, _)
Insert(x, sorted) ==
    IF sorted = <<>> THEN <<x>>
    ELSE IF x <= Head(sorted) THEN <<x>> \o sorted
    ELSE <<Head(sorted)>> \o Insert(x, Tail(sorted))

\* Mutation of Sort: the copy is left in the order given.
Unsorted(numbers) == numbers

\* [...numbers].sort((a, b) => a - b)
RECURSIVE Sort(_)
Sort(numbers) ==
    IF numbers = <<>> THEN <<>> ELSE Insert(Head(numbers), Sort(Tail(numbers)))

RECURSIVE Sum(_)
Sum(numbers) ==
    IF numbers = <<>> THEN 0 ELSE Head(numbers) + Sum(Tail(numbers))

\* describe past its guard (evaluate.ts 16-47), for a non-empty sequence.
\* std is the square root of the variance it holds.
statistics(numbers) ==
    LET sortedNumbers == Sort(numbers)
        n == Len(sortedNumbers)
        sum == Sum(sortedNumbers)
        middle == n \div 2
        \* (num - average) ** 2 is (n * num - sum) ** 2 / n ** 2
        squaredDifferences ==
            [k \in 1..n |-> (n * sortedNumbers[k] - sum)
                                * (n * sortedNumbers[k] - sum)]
    IN  [average |-> Frac(sum, n),
         median |-> IF n % 2 = 0
                    THEN Frac(sortedNumbers[middle]
                                  + sortedNumbers[middle + 1], 2)
                    ELSE Frac(sortedNumbers[middle + 1], 1),
         std |-> [sqrt |-> Frac(Sum(squaredDifferences), n * n * n)],
         max |-> sortedNumbers[n],
         min |-> sortedNumbers[1]]

\* Mutation of describe: an empty sequence has all-zero statistics.
describeLenient(numbers) ==
    IF Len(numbers) = 0
    THEN Some([average |-> Frac(0, 1), median |-> Frac(0, 1),
               std |-> [sqrt |-> Frac(0, 1)], max |-> 0, min |-> 0])
    ELSE Some(statistics(numbers))

\* describe(numbers): None when it throws Error("Input array is empty"),
\* else Some(statistics).
describe(numbers) ==
    IF Len(numbers) = 0 THEN None ELSE Some(statistics(numbers))

(***************************************************************************)
(* evaluate.ts: Evaluator                                                  *)
(***************************************************************************)
tcA == [input |-> <<"a">>, output |-> "4"]
tcB == [input |-> <<"b">>, output |-> "6"]

\* The test case lists an Evaluator is configured with.
TestCaseLists == {<<>>, <<tcA>>, <<tcA, tcB>>, <<tcB, tcA>>}

\* The evaluator functions an Evaluator is configured with: a synchronous
\* and an asynchronous one.
Evaluators == {"sync", "async"}

\* performance.now() differences.
Durations == {12, 30}

\* The partial configurations `new Evaluator(config)` is called with.
EvalConfigs ==
    { (IF it = None THEN <<>> ELSE [iterations |-> it[1]])
        @@ (IF tc = None THEN <<>> ELSE [testCases |-> tc[1]])
        @@ (IF ev = None THEN <<>> ELSE [evaluator |-> ev[1]])
        @@ (IF bm = None THEN <<>> ELSE [benchmark |-> bm[1]]) :
        it \in {None} \cup {Some(n) : n \in 0..MaxIterations},
        tc \in {None} \cup {Some(l) : l \in TestCaseLists},
        ev \in {None} \cup {Some(e) : e \in Evaluators},
        bm \in {None, Some(TRUE), Some(FALSE)} }

\* The defaults of the constructor; "default" is the evaluator () => 0.
DefaultConfig ==
    [iterations |-> 1, testCases |-> <<>>, evaluator |-> "default",
     benchmark |-> FALSE]

\* constructor(config): the defaults, overridden by what config gives.
Evaluator(given) == Spread(DefaultConfig, given)

\* The evaluator called with (testCase, response): the score it returns, or
\* its fault. The default returns 0. The others score 1 when the text is
\* the expected output and 0 when not; both fail on a response that has no
\* text, and the asynchronous one on an empty text too. A synchronous
\* evaluator throws, an asynchronous one rejects.
evaluator(kind, testCase, response) ==
    IF kind = "default" THEN [ok |-> TRUE, score |-> 0]
    ELSE IF \/ "text" \notin DOMAIN response
            \/ kind = "async" /\ response.text = ""
    THEN [ok |-> FALSE, score |-> 0]
    ELSE [ok |-> TRUE,
          score |-> IF response.text = testCase.output THEN 1 ELSE 0]

\* Mutation of Push: array.unshift(value).
Unshift(array, value) == <<value>> \o array

\* array.push(value)
Push(array, value) == Append(array, value)

\* No activation of run.
IdleRun ==
    [pc |-> "idle", testCases |-> <<>>, t |-> 1, i |-> 0, scores |-> <<>>,
     responses |-> <<>>, promptTokens |-> <<>>, responseTokens |-> <<>>,
     executionTimes |-> <<>>, promise |-> None, result |-> None,
     fault |-> None, log |-> <<>>]
\* log is the history of the trials, kept for the properties: for each
\* trial started, its loop position (t, i), the arguments fn was called
\* with, how the invocation settled and what the evaluator answered.

\* Mutation of runLocals: the series are fields of the Evaluator, created
\* once and appended to by every run.
runLocalsOnInstance ==
    [IdleRun EXCEPT
        !.testCases = IF Len(config.testCases) > 0 THEN config.testCases
                      ELSE <<>>,
        !.scores = run.scores,
        !.responses = run.responses,
        !.promptTokens = run.promptTokens,
        !.responseTokens = run.responseTokens,
        !.executionTimes = run.executionTimes]

\* run up to its loop (evaluate.ts 99-105).
runLocals ==
    [IdleRun EXCEPT
        !.testCases = IF Len(config.testCases) > 0 THEN config.testCases
                      ELSE <<>>]

\* Mutation of Seek: the inner loop runs while i <= iterations.
RECURSIVE SeekOneMore(_)
SeekOneMore(r) ==
    IF r.t > Len(r.testCases) THEN r
    ELSE IF r.i <= config.iterations THEN r
    ELSE SeekOneMore([r EXCEPT !.t = r.t + 1, !.i = 0])

\* The position (t, i) of the next trial of the loops (evaluate.ts 107-108)
\* from position r on; t is past the test cases when there is none.
RECURSIVE Seek(_)
Seek(r) ==
    IF r.t > Len(r.testCases) THEN r
    ELSE IF r.i < config.iterations THEN r
    ELSE Seek([r EXCEPT !.t = r.t + 1, !.i = 0])

\* Who awaits an invocation: a direct caller, or trial k of Evaluator.run.
Caller == [who |-> "caller", trial |-> 0]
Trial(k) == [who |-> "run", trial |-> k]

\* The calls of fn made by run and still in flight.
InFlight == {c \in pending : c.by.who = "run"}

\* Mutation of StartTrial: the invocation of the next iteration is made
\* along with this one's, neither awaited first.
StartTrialFanOut(r, p) ==
    [run |-> [r EXCEPT !.pc = "awaitFn",
                       !.log = Append(r.log,
                                  [t |-> r.t, i |-> r.i,
                                   args |-> r.testCases[r.t].input,
                                   invoked |-> None, evaluated |-> None])],
     pending |-> p \cup {lampCall(Trial(Len(r.log)), 1,
                                  r.testCases[r.t].input),
                         lampCall(Trial(Len(r.log) + 1), 1,
                                  r.testCases[r.t].input)}]

\* `await fn(...testCase.input)` (evaluate.ts 109-110): trial number
\* Len(r.log) starts, and run is suspended on the invocation.
StartTrial(r, p) ==
    [run |-> [r EXCEPT !.pc = "awaitFn",
                       !.log = Append(r.log,
                                  [t |-> r.t, i |-> r.i,
                                   args |-> r.testCases[r.t].input,
                                   invoked |-> None, evaluated |-> None])],
     pending |-> p \cup {lampCall(Trial(Len(r.log)), 1,
                                  r.testCases[r.t].input)}]

\* The statistics of the return statement (evaluate.ts 126-145), in the
\* order they are computed: the first describe that throws ends run.
Return(r) ==
    LET series == <<r.scores, r.executionTimes, r.promptTokens,
                    r.responseTokens>>
        stats == [k \in 1..4 |-> describe(series[k])]
    IN  IF \E k \in 1..4 : stats[k] = None
        THEN [r EXCEPT !.pc = "faulted", !.fault = Some("InvalidInput")]
        ELSE [r EXCEPT
                !.pc = "returned",
                !.result = Some(
                    [responses |-> r.responses,
                     testCases |-> r.testCases,
                     scores |-> Spread([values |-> r.scores], stats[1][1]),
                     executionTimes |->
                        Spread([values |-> r.executionTimes], stats[2][1]),
                     promptTokens |->
                        Spread([values |-> r.promptTokens], stats[3][1]),
                     completionTokens |->
                        Spread([values |-> r.responseTokens], stats[4][1])])]

\* The loops from position (t, i) on: the next trial starts, or run returns.
Continue(r, p) ==
    LET s == Seek(r)
    IN  IF s.t <= Len(s.testCases) THEN StartTrial(s, p)
        ELSE [run |-> Return(s), pending |-> p]

\* What the log keeps of a settlement.
Observed(o) ==
    [ok |-> o.ok, value |-> o.value, fault |-> o.fault, args |-> o.args,
     trial |-> o.by.trial]

\* Mutation of PushTime: the duration is recorded whatever the flag.
PushTimeAlways(times, benchmark, elapsed) == Push(times, elapsed)

\* `if (this.config.benchmark) executionTimes.push(...)`.
PushTime(times, benchmark, elapsed) ==
    IF benchmark THEN Push(times, elapsed) ELSE times

\* fn resolved (settlement o; evaluate.ts 111-121): the pushes, then the
\* evaluator's call. A throw ends run; else run is suspended on the score.
AfterInvocation(r, o, elapsed) ==
    LET k == Len(r.log)
        result == o.value[1]
        e == evaluator(config.evaluator, r.testCases[r.t], result)
        pushed == [r EXCEPT
            !.responses = Push(r.responses, result),
            !.promptTokens = Push(r.promptTokens, result.usage.promptTokens),
            !.responseTokens =
                Push(r.responseTokens, result.usage.completionTokens),
            !.executionTimes =
                PushTime(r.executionTimes, config.benchmark, elapsed),
            !.log[k].invoked = Some(Observed(o)),
            !.log[k].evaluated = Some(e)]
    IN  IF ~e.ok /\ config.evaluator = "sync"
        THEN [pushed EXCEPT !.pc = "faulted",
                            !.fault = Some("EvaluatorFault")]
        ELSE [pushed EXCEPT !.pc = "awaitEval", !.promise = Some(e)]

\* Mutation of InvocationFault: the fault is caught, the trial scores 0 and
\* the loops go on.
InvocationFaultCaught(r, o) ==
    [r EXCEPT !.pc = "awaitEval", !.promise = Some([ok |-> TRUE, score |-> 0]),
              !.log[Len(r.log)].invoked = Some(Observed(o))]

\* fn rejected (settlement o; evaluate.ts 110): the fault leaves run.
InvocationFault(r, o) ==
    [r EXCEPT !.pc = "faulted", !.fault = o.fault,
              !.log[Len(r.log)].invoked = Some(Observed(o))]

\* The evaluator's score arrived (evaluate.ts 121-123, and the loop's i++).
AfterScore(r, score) ==
    [r EXCEPT !.scores = Push(r.scores, score), !.i = r.i + 1,
              !.promise = None]

\* Mutation of EvaluatorFault: the fault is caught, and run returns what
\* it has so far.
EvaluatorFaultSalvaged(r) == Return([r EXCEPT !.promise = None])

\* The evaluator's promise rejected (evaluate.ts 121): the fault leaves run.
EvaluatorFault(r) ==
    [r EXCEPT !.pc = "faulted", !.fault = Some("EvaluatorFault"),
              !.promise = None]

(***************************************************************************)
(* Actions of a caller using the bound invokers directly.                  *)
(***************************************************************************)
\* A caller calls bound invoker inv with args (and is not already awaiting
\* that very call).
Call(inv, args) ==
    /\ calls < MaxCalls
    /\ lampCall(Caller, inv, args) \notin pending
    /\ pending' = pending \cup {lampCall(Caller, inv, args)}
    /\ calls' = calls + 1
    /\ UNCHANGED <<invokers, settled, config, run,
                   earlier, sample, described>>

\* The capability settles the request of a pending call, and the bound
\* invoker runs to its end.
InvokerResume(call) ==
    /\ call \in pending
    /\ \E outcome \in CapabilityOutcomes(call.request), columns \in Columns :
          settled' = settled \cup {lampSettle(call, outcome, columns)}
    /\ pending' = pending \ {call}
    /\ UNCHANGED <<invokers, calls, config, run,
                   earlier, sample, described>>

\* cfg with its debug flag toggled: set where it was unset or false, and
\* absent where it was set.
ToggleDebug(cfg) ==
    LET others == [k \in DOMAIN cfg.settings \ {"debug"} |-> cfg.settings[k]]
    IN  [cfg EXCEPT !.settings =
            IF DebugSet(cfg.settings) THEN others
            ELSE Spread(others, [debug |-> TRUE])]

\* Two invokers bound from configurations that differ in the debug flag
\* alone, and no Evaluator at work.
InitLamp ==
    /\ \E cfg \in Configs : invokers = <<cfg, ToggleDebug(cfg)>>
    /\ pending = {}
    /\ settled = {}
    /\ calls = 0
    /\ config = DefaultConfig
    /\ run = IdleRun
    /\ earlier = <<>>
    /\ sample = <<>>
    /\ described = None

NextLamp ==
    \/ \E inv \in DOMAIN invokers, args \in Inputs : Call(inv, args)
    \/ \E call \in pending : InvokerResume(call)

SpecLamp == InitLamp /\ [][NextLamp]_vars

(***************************************************************************)
(* Actions of Evaluator.run, driving the bound invoker invokers[1].        *)
(***************************************************************************)
\* run(fn) is called: it runs to its first await, or to its end.
Run ==
    /\ run.pc = "idle"
    /\ LET next == Continue(runLocals, pending)
       IN  run' = next.run /\ pending' = next.pending
    /\ UNCHANGED <<invokers, settled, calls, config,
                   earlier, sample, described>>

\* The invocation run awaits has settled: run goes on to the evaluator's
\* call, or the fault leaves it.
TrialResume ==
    /\ run.pc = "awaitFn"
    /\ \E o \in settled, elapsed \in Durations :
          /\ o.by = Trial(Len(run.log) - 1)
          /\ settled' = settled \ {o}
          /\ run' = IF o.ok THEN AfterInvocation(run, o, elapsed)
                    ELSE InvocationFault(run, o)
    /\ UNCHANGED <<invokers, pending, calls, config,
                   earlier, sample, described>>

\* The evaluator's promise has settled: run goes on to the next trial or
\* to its return, or the fault leaves it.
EvalResume ==
    /\ run.pc = "awaitEval"
    /\ LET e == run.promise[1]
           next == Continue(AfterScore(run, e.score), pending)
       IN  IF e.ok
           THEN run' = next.run /\ pending' = next.pending
           ELSE run' = EvaluatorFault(run) /\ pending' = pending
    /\ UNCHANGED <<invokers, settled, calls, config,
                   earlier, sample, described>>

\* One bound invoker and one Evaluator, constructed and not yet run.
Init ==
    /\ \E cfg \in Configs : invokers = <<cfg>>
    /\ \E given \in EvalConfigs : config = Evaluator(given)
    /\ pending = {}
    /\ settled = {}
    /\ calls = 0
    /\ run = IdleRun
    /\ earlier = <<>>
    /\ sample = <<>>
    /\ described = None

Next ==
    \/ Run
    \/ \E call \in pending : InvokerResume(call)
    \/ TrialResume
    \/ EvalResume

Spec == Init /\ [][Next]_vars

(***************************************************************************)
(* Several runs of one Evaluator, each called when the one before ended.   *)
(***************************************************************************)
\* What the caller of run holds once it has ended: the EvalResult or the
\* fault (with the history of the run's trials, kept for the properties).
Ended(r) ==
    [pc |-> r.pc, result |-> r.result, fault |-> r.fault, log |-> r.log]

\* run(fn) is called again on the Evaluator, the run before having
\* returned or faulted.
RunAgain ==
    /\ run.pc \in {"returned", "faulted"}
    /\ Len(earlier) + 1 < MaxRuns
    /\ earlier' = Append(earlier, Ended(run))
    /\ LET next == Continue(runLocals, pending)
       IN  run' = next.run /\ pending' = next.pending
    /\ UNCHANGED <<invokers, settled, calls, config, sample, described>>

\* The partial configurations of the Evaluators that are run repeatedly.
RunConfigs ==
    { [testCases |-> l, evaluator |-> e, benchmark |-> b] :
        l \in {<<tcA>>, <<tcA, tcB>>}, e \in Evaluators,
        b \in {TRUE, FALSE} }

\* One bound invoker and one Evaluator, constructed and not yet run.
InitRuns ==
    /\ \E cfg \in Configs : invokers = <<cfg>>
    /\ \E given \in RunConfigs : config = Evaluator(given)
    /\ pending = {}
    /\ settled = {}
    /\ calls = 0
    /\ run = IdleRun
    /\ earlier = <<>>
    /\ sample = <<>>
    /\ described = None

NextRuns ==
    \/ Run
    \/ RunAgain
    \/ \E call \in pending : InvokerResume(call)
    \/ TrialResume
    \/ EvalResume

SpecRuns == InitRuns /\ [][NextRuns]_vars

(***************************************************************************)
(* Actions of a caller of describe.                                        *)
(***************************************************************************)
\* The values of the arrays describe is called with.
Numbers == -2..3

\* The arrays describe is called with: every order of every choice of at
\* most MaxLen values.
Samples == UNION {[1..n -> Numbers] : n \in 0..MaxLen}

\* The caller calls describe(sample): describe sorts a copy of its
\* argument, so the caller's array is left as it is.
Describe ==
    /\ described = None
    /\ described' = Some(describe(sample))
    /\ UNCHANGED <<invokers, pending, settled, calls, config, run, earlier,
                   sample>>

\* A caller holding an array, before its call of describe; no invoker is
\* bound.
InitDescribe ==
    /\ invokers = <<>>
    /\ pending = {}
    /\ settled = {}
    /\ calls = 0
    /\ config = DefaultConfig
    /\ run = IdleRun
    /\ earlier = <<>>
    /\ sample \in Samples
    /\ described = None

NextDescribe == Describe

SpecDescribe == InitDescribe /\ [][NextDescribe]_vars

(***************************************************************************)
(* Properties of the bound invoker (SpecLamp).                             *)
(***************************************************************************)
\* Every invocation made so far, in flight or settled.
Invocations == pending \cup settled

\* C1: a bound invoker constructed without a schema resolves every call
\* with exactly {text, usage}, one constructed with a schema with exactly
\* {object, usage}; two results of the same invoker never differ in mode.
C1_ModeFixedAtConstruction ==
    /\ \A o \in settled : o.ok =>
          DOMAIN o.value[1] = IF invokers[o.inv].schema = None
                              THEN {"text", "usage"}
                              ELSE {"object", "usage"}
    /\ \A o1, o2 \in settled :
          (o1.ok /\ o2.ok /\ o1.inv = o2.inv) =>
              DOMAIN o1.value[1] = DOMAIN o2.value[1]

\* Two calls of one schema-bound invoker have resolved, on different
\* responses.
C1_Witness ==
    \E o1, o2 \in settled :
        /\ o1.ok /\ o2.ok /\ o1.inv = o2.inv
        /\ invokers[o1.inv].schema # None
        /\ o1.response # o2.response

\* C9: the capability's argument holds every setting of the configuration
\* but the debug flag, never the debug flag, and the schema in object mode
\* only.
C9_DebugAndSchemaStripped ==
    \A c \in Invocations :
        LET cfg == invokers[c.inv]
            arg == c.request.arg
        IN  /\ "debug" \notin DOMAIN arg
            /\ \A k \in DOMAIN cfg.settings \ {"debug"} :
                  k \in DOMAIN arg /\ arg[k] = cfg.settings[k]
            /\ ("schema" \in DOMAIN arg) <=> (c.request.op = "generateObject")
            /\ ("schema" \in DOMAIN arg) => cfg.schema = Some(arg["schema"])
            /\ (c.request.op = "generateObject") <=> (cfg.schema # None)

\* Configurations that differ at most in the debug flag.
SameButDebug(cfg1, cfg2) ==
    /\ cfg1.model = cfg2.model
    /\ cfg1.schema = cfg2.schema
    /\ DOMAIN cfg1.settings \ {"debug"} = DOMAIN cfg2.settings \ {"debug"}
    /\ \A k \in DOMAIN cfg1.settings \ {"debug"} :
          cfg1.settings[k] = cfg2.settings[k]

\* C10: two invokers that differ in the debug flag alone settle alike on
\* the same arguments and the same response of the capability, and only an
\* invoker with the debug flag set writes to the trace sink.
C10_TraceObservational ==
    /\ \A o1, o2 \in settled :
          ( /\ SameButDebug(invokers[o1.inv], invokers[o2.inv])
            /\ DebugSet(invokers[o1.inv].settings)
            /\ ~DebugSet(invokers[o2.inv].settings)
            /\ o1.args = o2.args
            /\ o1.response # None
            /\ o1.response = o2.response )
          => (o1.ok = o2.ok /\ o1.value = o2.value)
    /\ \A o \in settled :
          o.written # <<>> => DebugSet(invokers[o.inv].settings)

\* C11: every invocation carries, as the capability's argument, what the
\* prompt function returns for the arguments the invoker was called with: a
\* pair {system: S, prompt: P} gives system = S and prompt = P, a bare
\* string gives that string as prompt and system undefined.
C11_PromptForwarded ==
    \A c \in Invocations :
        LET prompts == promptFn(c.args)
            arg == c.request.arg
        IN  /\ "system" \in DOMAIN arg /\ "prompt" \in DOMAIN arg
            /\ arg["prompt"] = prompts.prompt
            /\ prompts.kind = "string" => arg["system"] = None
            /\ prompts.kind = "object" => arg["system"] = Some(prompts.system)

\* One text-mode invoker was called on a pair with system "S" and on a
\* bare string, and both calls have settled.
C11_Witness ==
    \E o1, o2 \in settled :
        /\ o1.inv = o2.inv
        /\ o1.request.op = "generateText"
        /\ o1.args = <<"b">> /\ o1.request.arg["system"] = Some("S")
        /\ o2.args = <<"a">> /\ o2.request.arg["system"] = None

\* The last line of a trace.
LastLine(written) == written[Len(written)]

\* C14: for an invoker with the debug flag set, a call the capability
\* answered and that resolved has written a trace that shows the system
\* message when the prompt function gave one and none when it gave a bare
\* string, then the user prompt, and as its output the text the capability
\* returned (whatever the text, the empty one too) or the JSON of the
\* object it returned; a call the capability faulted on has written
\* nothing. (An empty system message may be shown or left out.)
C14_TraceContents ==
    \A o \in settled :
        DebugSet(invokers[o.inv].settings) =>
            /\ o.response = None => o.written = <<>>
            /\ (o.response # None /\ o.ok) =>
                  LET prompts == promptFn(o.args)
                      user == "\\x1b[33muser:\\x1b[0m " \o prompts.prompt
                                  \o "\n"
                  IN  /\ (prompts.kind = "object" /\ prompts.system # "") =>
                            /\ Len(o.written) = 6
                            /\ o.written[2] = "\\x1b[33msystem:\\x1b[0m "
                                                  \o prompts.system \o "\n"
                            /\ o.written[4] = user
                      /\ prompts.kind = "string" =>
                            /\ Len(o.written) = 4
                            /\ o.written[2] = user
                      /\ \E k \in DOMAIN o.written : o.written[k] = user
                      /\ LastLine(o.written) =
                            IF o.request.op = "generateText"
                            THEN o.response[1].text \o "\n"
                            ELSE JSONStringify(Some(o.response[1].object))[1]
                                     \o "\n"

(***************************************************************************)
(* Properties of Evaluator.run (Spec).                                     *)
(***************************************************************************)
\* C2: in the EvalResult, index k (from 0) of responses and of the values
\* of scores, promptTokens and completionTokens is the trial of test case
\* floor(k / iterations), in the order supplied, at iteration
\* k mod iterations.
C2_IndexIsTrial ==
    run.pc = "returned" =>
        LET result == run.result[1]
            M == config.iterations
        IN  /\ Len(run.log) = Len(result.responses)
            /\ \A k \in 0..(Len(run.log) - 1) :
                  LET trial == run.log[k + 1]
                      tc == (k \div M) + 1
                      response == trial.invoked[1].value[1]
                  IN  /\ trial.t = tc
                      /\ trial.i = k % M
                      /\ trial.invoked[1].trial = k
                      /\ trial.invoked[1].args = config.testCases[tc].input
                      /\ result.responses[k + 1] = response
                      /\ result.scores.values[k + 1]
                            = trial.evaluated[1].score
                      /\ result.promptTokens.values[k + 1]
                            = response.usage.promptTokens
                      /\ result.completionTokens.values[k + 1]
                            = response.usage.completionTokens

\* A run over two test cases and two iterations has returned, the first
\* and the last trial differing in response and in score.
C2_Witness ==
    /\ run.pc = "returned"
    /\ Len(config.testCases) = 2 /\ config.iterations = 2
    /\ run.result[1].responses[1] # run.result[1].responses[4]
    /\ run.result[1].scores.values[1] # run.result[1].scores.values[4]

\* The lengths of the series of a run record or of an EvalResult's values.
SeriesLengths(scores, promptTokens, completionTokens, responses) ==
    {Len(scores), Len(promptTokens), Len(completionTokens), Len(responses)}

\* C3: a returned EvalResult has N * M scores, prompt and completion token
\* counts and responses, and N * M execution times when benchmarking; when
\* a trial starts, each of these series holds one value per trial completed.
C3_SeriesLengths ==
    /\ run.pc = "returned" =>
          LET result == run.result[1]
              NM == Len(config.testCases) * config.iterations
          IN  /\ SeriesLengths(result.scores.values,
                               result.promptTokens.values,
                               result.completionTokens.values,
                               result.responses) = {NM}
              /\ config.benchmark => Len(result.executionTimes.values) = NM
    /\ run.pc = "awaitFn" =>
          /\ SeriesLengths(run.scores, run.promptTokens, run.responseTokens,
                           run.responses) = {Len(run.log) - 1}
          /\ config.benchmark => Len(run.executionTimes) = Len(run.log) - 1

\* A benchmarked run over two test cases and two iterations has returned.
C3_Witness ==
    /\ run.pc = "returned"
    /\ config.benchmark
    /\ Len(config.testCases) * config.iterations = 4
    /\ Len(run.result[1].executionTimes.values) = 4

\* The invocations run has made whose settlement it has not taken yet.
Outstanding == InFlight \cup {o \in settled : o.by.who = "run"}

\* C4: run has at most one invocation outstanding, and while the
\* invocation of trial k is, run is suspended on it, every earlier trial's
\* invocation has settled and its score is appended, and no evaluator is
\* awaited.
C4_TrialsSequential ==
    /\ Cardinality(Outstanding) <= 1
    /\ \A c \in Outstanding :
          /\ run.pc = "awaitFn"
          /\ c.by.trial = Len(run.log) - 1
          /\ Len(run.scores) = c.by.trial
          /\ run.promise = None
          /\ \A k \in 1..c.by.trial :
                run.log[k].invoked # None /\ run.log[k].evaluated # None

\* With an asynchronous evaluator, the invocation of a second trial is in
\* flight.
C4_Witness ==
    /\ config.evaluator = "async"
    /\ \E c \in InFlight : c.by.trial = 1 /\ Len(run.scores) = 1

\* C5: when the invocation of a trial faults, run ends with that fault:
\* the evaluator is not called for the trial, no later trial is started and
\* no EvalResult is returned.
C5_InvokerFaultPropagates ==
    \A k \in DOMAIN run.log :
        LET trial == run.log[k]
        IN  (trial.invoked # None /\ ~trial.invoked[1].ok) =>
                /\ run.pc = "faulted"
                /\ run.fault = trial.invoked[1].fault
                /\ k = Len(run.log)
                /\ trial.evaluated = None
                /\ Len(run.scores) = k - 1
                /\ Outstanding = {}
                /\ run.result = None

\* The invocation of the third trial was aborted.
C5_Witness ==
    /\ Len(run.log) = 3
    /\ run.log[3].invoked # None
    /\ run.log[3].invoked[1].fault = Some("AbortError")
    /\ run.pc = "faulted"

\* C6: when the evaluator faults on a trial, run ends with that fault (a
\* rejection once run resumes): no later trial is started, no evaluator
\* call follows and no EvalResult is returned.
C6_EvaluatorFaultPropagates ==
    \A k \in DOMAIN run.log :
        LET trial == run.log[k]
        IN  (trial.evaluated # None /\ ~trial.evaluated[1].ok) =>
                /\ \/ run.pc = "faulted" /\ run.fault = Some("EvaluatorFault")
                   \/ /\ run.pc = "awaitEval"
                      /\ config.evaluator = "async"
                      /\ run.promise = trial.evaluated
                /\ k = Len(run.log)
                /\ Len(run.scores) = k - 1
                /\ Outstanding = {}
                /\ run.result = None

\* Run has ended on the rejection of an asynchronous evaluator in the
\* second trial.
C6_Witness ==
    /\ run.pc = "faulted"
    /\ run.fault = Some("EvaluatorFault")
    /\ config.evaluator = "async"
    /\ Len(run.log) = 2
    /\ Len(run.responses) = 2

\* Every trial of the loops was made, invoked and scored.
AllTrialsDone ==
    /\ Len(run.log) = Len(config.testCases) * config.iterations
    /\ \A k \in DOMAIN run.log :
          /\ run.log[k].invoked # None /\ run.log[k].invoked[1].ok
          /\ run.log[k].evaluated # None /\ run.log[k].evaluated[1].ok
    /\ Len(run.scores) = Len(run.log)

\* C7: without benchmarking executionTimes stays empty, run never returns
\* an EvalResult, and a run that gets through its trials ends in
\* InvalidInput.
C7_NoBenchmarkNoResult ==
    ~config.benchmark =>
        /\ run.executionTimes = <<>>
        /\ run.pc # "returned"
        /\ run.result = None
        /\ (AllTrialsDone /\ run.pc \notin {"idle", "awaitEval"}) =>
              (run.pc = "faulted" /\ run.fault = Some("InvalidInput"))

\* Without benchmarking, a run got through four trials and ended in
\* InvalidInput.
C7_Witness ==
    /\ ~config.benchmark
    /\ Len(run.scores) = 4
    /\ run.pc = "faulted"
    /\ run.fault = Some("InvalidInput")

\* C8: run on a configuration without test cases invokes nothing, calls no
\* evaluator, leaves every series empty and ends in InvalidInput.
C8_NoTestCases ==
    (config.testCases = <<>> /\ run.pc # "idle") =>
        /\ run.pc = "faulted"
        /\ run.fault = Some("InvalidInput")
        /\ run.result = None
        /\ run.log = <<>>
        /\ Invocations = {}
        /\ run.scores = <<>> /\ run.responses = <<>>
        /\ run.promptTokens = <<>> /\ run.responseTokens = <<>>
        /\ run.executionTimes = <<>>

\* Run on the default configuration has ended.
C8_Witness ==
    /\ config = DefaultConfig
    /\ run.pc = "faulted"

(***************************************************************************)
(* Properties of describe (SpecDescribe).                                  *)
(***************************************************************************)
\* Reference statistics of a sequence S, by counting and not by sorting.
Below(S, x) == Cardinality({k \in DOMAIN S : S[k] < x})
AtMost(S, x) == Cardinality({k \in DOMAIN S : S[k] <= x})

\* The k-th smallest element of S, k from 1.
Kth(S, k) ==
    CHOOSE x \in {S[j] : j \in DOMAIN S} : Below(S, x) < k /\ k <= AtMost(S, x)

RefMax(S) == CHOOSE x \in {S[j] : j \in DOMAIN S} : \A j \in DOMAIN S : S[j] <= x
RefMin(S) == CHOOSE x \in {S[j] : j \in DOMAIN S} : \A j \in DOMAIN S : x <= S[j]

RECURSIVE RefSum(_, _)
RefSum(S, k) == IF k = 0 THEN 0 ELSE S[k] + RefSum(S, k - 1)

\* describe(sample) agrees with the reference statistics of sample.
AgreesWithReference ==
    (described # None /\ sample # <<>>) =>
        /\ described[1] # None
        /\ LET d == described[1][1]
               n == Len(sample)
           IN  /\ d.max = RefMax(sample)
               /\ d.min = RefMin(sample)
               /\ d.average.num * n = RefSum(sample, n) * d.average.den
               /\ n % 2 = 1 =>
                     /\ d.median.den = 1
                     /\ d.median.num = Kth(sample, (n + 1) \div 2)
               /\ n % 2 = 0 =>
                     d.median.num * 2 =
                        (Kth(sample, n \div 2) + Kth(sample, n \div 2 + 1))
                            * d.median.den
               /\ n = 1 =>
                     d = [average |-> [num |-> sample[1], den |-> 1],
                          median |-> [num |-> sample[1], den |-> 1],
                          std |-> [sqrt |-> [num |-> 0, den |-> 1]],
                          max |-> sample[1], min |-> sample[1]]

\* C12: for every non-empty sequence, in any order, describe gives the
\* maximum, the minimum, an average whose product with the length is the
\* sum, and as median the central element of the sorted sequence or the
\* mean of its two central elements (for one value x: average, median,
\* max and min x, and std 0); the call leaves the array given in its order.
C12_DescribeReference ==
    /\ []AgreesWithReference
    /\ [][sample' = sample]_vars

\* describe was called on three values given out of order.
C12_Witness ==
    /\ described # None /\ described[1] # None
    /\ Len(sample) = 3
    /\ sample[1] > sample[2] /\ sample[2] < sample[3]

(***************************************************************************)
(* Properties of repeated runs (SpecRuns).                                 *)
(***************************************************************************)
\* The runs that have ended, oldest first.
EndedRuns ==
    IF run.pc \in {"returned", "faulted"} THEN Append(earlier, Ended(run))
    ELSE earlier

\* The EvalResult of ended run e holds the trials of that run and no
\* other: one value per trial of its own history, in order.
OwnTrialsOnly(e) ==
    e.pc = "returned" =>
        LET result == e.result[1]
            n == Len(e.log)
        IN  /\ n = Len(config.testCases) * config.iterations
            /\ Len(result.responses) = n
            /\ Len(result.scores.values) = n
            /\ Len(result.executionTimes.values) = n
            /\ Len(result.promptTokens.values) = n
            /\ Len(result.completionTokens.values) = n
            /\ \A k \in 1..n :
                  LET response == e.log[k].invoked[1].value[1]
                  IN  /\ result.responses[k] = response
                      /\ result.scores.values[k] = e.log[k].evaluated[1].score
                      /\ result.promptTokens.values[k]
                            = response.usage.promptTokens
                      /\ result.completionTokens.values[k]
                            = response.usage.completionTokens

\* While the first trial of a run is in flight, every series is empty.
StartsEmpty ==
    (run.pc = "awaitFn" /\ Len(run.log) = 1) =>
        /\ run.scores = <<>> /\ run.executionTimes = <<>>
        /\ run.promptTokens = <<>> /\ run.responseTokens = <<>>
        /\ run.responses = <<>>

\* C13: every run of an Evaluator starts with empty series, so each
\* EvalResult holds the trials of its own run only; a later run changes
\* nothing of what an earlier run returned, and no step of run changes the
\* Evaluator's configuration.
C13_RunsShareNoState ==
    /\ [](StartsEmpty /\ \A k \in DOMAIN EndedRuns : OwnTrialsOnly(EndedRuns[k]))
    /\ [][ /\ config' = config
           /\ \A k \in DOMAIN EndedRuns : EndedRuns'[k] = EndedRuns[k] ]_vars

\* Two runs of one Evaluator have returned, with different responses.
C13_Witness ==
    /\ Len(earlier) = 1
    /\ earlier[1].pc = "returned"
    /\ run.pc = "returned"
    /\ run.result[1].responses # earlier[1].result[1].responses

====
